---- MODULE Spec2Model ----
(***************************************************************************)
(* Model of savings_comparison.py: the cycle partitioner                   *)
(* calculate_yearly_savings and the catalog builder and ranker             *)
(* generate_comparison_data.  Both are pure functions; the state machine   *)
(* is one call of either function: Init draws the arguments, one action    *)
(* per function runs the whole body and records what it returns or raises. *)
(* Python lists are 0-based, TLA+ sequences 1-based: lengths[0] is         *)
(* lengths[1] here, and the DataFrame index label k is k + 1 here.         *)
(***************************************************************************)
EXTENDS Integers, Sequences, FiniteSets, TLC

VARIABLES pc, fn, num_cycles, target_cycles, year_days,
          grand_total, lengths, data, df, error

vars == <<pc, fn, num_cycles, target_cycles, year_days,
          grand_total, lengths, data, df, error>>

----------------------------------------------------------------------------
(* Bounds of the explored arguments *)

MaxCycles == 6

NegCycles == 1

MaxYearDays == 8

NegYearDays == 2

MaxListLen == 2

(* Program constants *)

YEAR_DAYS == 365

interesting_cycles == <<1, 2, 4, 6, 12, 24, 26, 52, 365>>

----------------------------------------------------------------------------
(* Python integer arithmetic *)

\* a // b for b # 0: floor division, also for negative operands
PyFloorDiv(a, b) ==
  IF b > 0 THEN a \div b ELSE (0 - a) \div (0 - b)

\* a % b for b # 0: the remainder has the sign of the divisor
PyMod(a, b) == a - b * PyFloorDiv(a, b)

\* int(x) of the quotient s / n, n > 0: truncation toward zero
PyIntOfQuotient(s, n) ==
  IF s >= 0 THEN s \div n ELSE 0 - ((0 - s) \div n)

RECURSIVE SumRange(_, _, _)
\* s[lo] + ... + s[hi], added up by halves to keep the evaluation shallow
\* (integer addition is associative, so the order of the additions is free)
SumRange(s, lo, hi) ==
  IF lo > hi THEN 0
  ELSE IF lo = hi THEN s[lo]
       ELSE LET mid == (lo + hi) \div 2
            IN SumRange(s, lo, mid) + SumRange(s, mid + 1, hi)

\* sum(seq), also the numerator of np.mean(seq)
SumSeq(s) == SumRange(s, 1, Len(s))

RECURSIVE MaxRange(_, _, _)
\* the largest of s[lo], ..., s[hi], lo <= hi
MaxRange(s, lo, hi) ==
  IF lo = hi THEN s[lo]
  ELSE LET mid == (lo + hi) \div 2
           a == MaxRange(s, lo, mid)
           b == MaxRange(s, mid + 1, hi)
       IN IF a >= b THEN a ELSE b

\* max(seq) of a non-empty sequence
MaxSeq(s) == MaxRange(s, 1, Len(s))

\* range(n): empty when n <= 0 (shifted to 1-based positions)
PyRange(n) == IF n > 0 THEN 1..n ELSE {}

----------------------------------------------------------------------------
(* calculate_yearly_savings *)

base_length_of(n, yd) == PyFloorDiv(yd, n)

remainder_of(n, yd) == PyMod(yd, n)

\* Variant: the comparison of line 23 written i <= remainder
lengths_of_inclusive(n, yd) ==
  [k \in PyRange(n) |->
     IF k - 1 <= remainder_of(n, yd) THEN base_length_of(n, yd) + 1
                                     ELSE base_length_of(n, yd)]

\* Variant: the whole remainder is given to the last cycle
lengths_of_tail_remainder(n, yd) ==
  [k \in PyRange(n) |->
     IF k = n THEN base_length_of(n, yd) + remainder_of(n, yd)
              ELSE base_length_of(n, yd)]

\* the loop of lines 21-26: loop variable i = k - 1
lengths_of(n, yd) ==
  [k \in PyRange(n) |->
     IF k - 1 < remainder_of(n, yd) THEN base_length_of(n, yd) + 1
                                    ELSE base_length_of(n, yd)]

\* Variant: the series of a cycle started at 0 instead of 1
cycle_sum_from_zero(lgth) == (lgth * (lgth - 1)) \div 2

\* line 33: lgth * (lgth + 1) is even, so the true division by 2 is exact
cycle_sum(lgth) == (lgth * (lgth + 1)) \div 2

\* lines 29-34: grand_total starts at 0 and accumulates cycle_sum(lgth)
\* for every lgth of lengths
grand_total_of(ls) == SumSeq([k \in DOMAIN ls |-> cycle_sum(ls[k])])

\* The whole function: what it raises, or what it returns
calculate_yearly_savings(n, yd) ==
  IF n = 0
  THEN [raises |-> "ZeroDivisionError", total |-> 0, lengths |-> <<>>]
  ELSE [raises |-> "none",
        total |-> grand_total_of(lengths_of(n, yd)),
        lengths |-> lengths_of(n, yd)]

----------------------------------------------------------------------------
(* generate_comparison_data: the cycle-based records *)

cycle_labels ==
  (1 :> "Yearly (1)") @@ (2 :> "Semi-Annual (2)") @@ (4 :> "Quarterly (4)") @@
  (6 :> "Bi-Monthly (6)") @@ (12 :> "Monthly (12)") @@
  (24 :> "Semi-Monthly (24)") @@ (26 :> "Bi-Weekly (26)") @@
  (52 :> "Weekly (52)") @@ (365 :> "Daily (365)")

\* cycle_labels.get(c, str(c))
label_of(c) ==
  IF c \in DOMAIN cycle_labels THEN cycle_labels[c] ELSE ToString(c)

\* len(set(lengths)) > 1
lengths_differ(ls) == Cardinality({ls[k] : k \in DOMAIN ls}) > 1

\* int(np.mean(lengths)): the mean is truncated toward zero
int_mean(ls) == PyIntOfQuotient(SumSeq(ls), Len(ls))

\* lines 57-59, for non-empty lengths
desc_of(ls) ==
  IF lengths_differ(ls)
  THEN "~" \o ToString(int_mean(ls)) \o " days"
  ELSE ToString(ls[1]) \o " days"

\* A quotient a / b kept as the pair of its operands (a float in the code)
Ratio(a, b) == [num |-> a, den |-> b]

\* What one iteration of the loop of lines 53-69 raises for cycle count c
cycle_error(c, yd) ==
  IF calculate_yearly_savings(c, yd).raises # "none"
  THEN calculate_yearly_savings(c, yd).raises
  ELSE IF calculate_yearly_savings(c, yd).lengths = <<>>
       THEN "IndexError"
       ELSE "none"

\* Variant: TotalCouple left undoubled
cycle_record_undoubled(c, yd) ==
  LET r == calculate_yearly_savings(c, yd)
  IN [CyclesPerYear |-> c,
      Label |-> label_of(c),
      TotalSavings |-> r.total,
      TotalCouple |-> r.total,
      MaxDailyAmount |-> MaxSeq(r.lengths),
      AvgDaysPerCycle |-> Ratio(yd, c),
      Desc |-> desc_of(r.lengths)]

\* lines 61-69: the record appended for cycle count c (no error raised)
cycle_record(c, yd) ==
  LET r == calculate_yearly_savings(c, yd)
  IN [CyclesPerYear |-> c,
      Label |-> label_of(c),
      TotalSavings |-> r.total,
      TotalCouple |-> r.total * 2,
      MaxDailyAmount |-> MaxSeq(r.lengths),
      AvgDaysPerCycle |-> Ratio(yd, c),
      Desc |-> desc_of(r.lengths)]

----------------------------------------------------------------------------
(* generate_comparison_data: the fixed custom strategies, lines 71-243 *)

RECURSIVE SumMultiples(_, _, _)
\* sum([step * i for i in range(lo, hi + 1)])
SumMultiples(step, lo, hi) ==
  IF lo > hi THEN 0 ELSE step * lo + SumMultiples(step, lo + 1, hi)

fixed_daily == 183

weeks == 52

w_total == SumMultiples(50, 1, weeks)

ladder_week_total == SumMultiples(50, 1, 7)

ladder_year_total == ladder_week_total * 52

payday_amount == 3000

payday_total == payday_amount * 24

weekday_amt == 300

weekday_total == (weekday_amt * 5) * 52

agg_ladder_week == SumMultiples(100, 1, 7)

agg_ladder_total == agg_ladder_week * 52

coffee_total == 60 * 365

binge_total == 2000 * 52

date_match_total == (496 * 7 + 465 * 4 + 406) * 10

odd_even_total == (183 * 50) + (182 * 500)

escalator_total == 750 * 52

\* One custom record: CyclesPerYear is the special id 0
custom_record(label, total, couple, maxDaily, avgDays, desc) ==
  [CyclesPerYear |-> 0,
   Label |-> label,
   TotalSavings |-> total,
   TotalCouple |-> couple,
   MaxDailyAmount |-> maxDaily,
   AvgDaysPerCycle |-> Ratio(avgDays, 1),
   Desc |-> desc]

\* The twelve data.append calls of lines 75-243, in order (the baht sign of
\* the labels and descriptions is written B)
custom_strategies ==
  << custom_record("Fixed Daily (183B)", fixed_daily * 365,
                   (fixed_daily * 365) * 2, fixed_daily, 0,
                   "Pay same amount every day"),
     custom_record("52-Week Challenge (x50)", w_total, w_total * 2, 2600, 7,
                   "Wk1=50, Wk52=2600"),
     custom_record("Weekday Ladder", ladder_year_total, ladder_year_total * 2,
                   350, 0, "Mon=50...Sun=350"),
     custom_record("Reverse 52-Week", w_total, w_total * 2, 2600, 7,
                   "Start High, End Low"),
     custom_record("Payday Sync (1st&16th)", payday_total, payday_total * 2,
                   payday_amount, 15, "3000B on Paydays Only"),
     custom_record("No-Spend Weekends", weekday_total, weekday_total * 2,
                   weekday_amt, 0, "M-F 300B, Sat-Sun 0B"),
     custom_record("Aggressive Ladder", agg_ladder_total, agg_ladder_total * 2,
                   700, 0, "Mon=100...Sun=700"),
     custom_record("Coffee Skip (60B)", coffee_total, coffee_total * 2, 60, 0,
                   "Skip 1 coffee/day"),
     custom_record("Weekend Binge", binge_total, binge_total * 2, 1000, 0,
                   "M-F 0B, Sat/Sun 1k"),
     custom_record("Date Match (x10)", date_match_total, date_match_total * 2,
                   310, 30, "Day 1=10B ... Day 31=310B"),
     custom_record("Odd/Even Smasher", odd_even_total, odd_even_total * 2,
                   500, 0, "Odd=50B, Even=500B"),
     custom_record("Workday Escalator", escalator_total, escalator_total * 2,
                   250, 0, "M->F 50,100..250. Wknd 0") >>

----------------------------------------------------------------------------
(* generate_comparison_data: assembling and ranking *)

\* The error of the first cycle count whose iteration raises, else "none"
RECURSIVE loop_error(_, _)
loop_error(cs, yd) ==
  IF cs = <<>> THEN "none"
  ELSE IF cycle_error(Head(cs), yd) # "none" THEN cycle_error(Head(cs), yd)
       ELSE loop_error(Tail(cs), yd)

\* data after the loop of lines 53-69 and the appends of lines 75-243
assemble(cs, yd) ==
  [k \in 1..Len(cs) |-> cycle_record(cs[k], yd)] \o custom_strategies

RECURSIVE DescendingOrders(_, _)
\* Every order of the index labels S in which TotalSavings never increases
DescendingOrders(d, S) ==
  IF S = {} THEN {<<>>}
  ELSE LET top == {k \in S :
                     \A j \in S : d[k].TotalSavings >= d[j].TotalSavings}
       IN UNION {{<<k>> \o rest : rest \in DescendingOrders(d, S \ {k})} :
                   k \in top}

RECURSIVE AscendingOrders(_, _)
AscendingOrders(d, S) ==
  IF S = {} THEN {<<>>}
  ELSE LET low == {k \in S :
                     \A j \in S : d[k].TotalSavings <= d[j].TotalSavings}
       IN UNION {{<<k>> \o rest : rest \in AscendingOrders(d, S \ {k})} :
                   k \in low}

\* Variant: the sort called with its default ascending=True
sort_values_ascending(d) ==
  {[i \in 1..Len(d) |-> [index |-> o[i], row |-> d[o[i]]]] :
     o \in AscendingOrders(d, DOMAIN d)}

\* pd.DataFrame(data).sort_values(by='TotalSavings', ascending=False): the
\* default kind 'quicksort' is not a stable sort, so rows with equal keys
\* come out in any relative order.  Each row keeps its index label.
sort_values(d) ==
  {[i \in 1..Len(d) |-> [index |-> o[i], row |-> d[o[i]]]] :
     o \in DescendingOrders(d, DOMAIN d)}

----------------------------------------------------------------------------
(* The calls *)

CycleDomain == (0 - NegCycles)..MaxCycles

YearDaysDomain == ((0 - NegYearDays)..MaxYearDays) \cup {YEAR_DAYS}

RECURSIVE ListsUpTo(_, _)
ListsUpTo(S, n) ==
  IF n = 0 THEN {<<>>}
  ELSE ListsUpTo(S, n - 1) \cup
       {Append(l, x) : l \in {m \in ListsUpTo(S, n - 1) : Len(m) = n - 1},
                       x \in S}

CycleLists == ListsUpTo(CycleDomain, MaxListLen)

\* The arguments of one call: a direct call of calculate_yearly_savings, a
\* call of generate_comparison_data on a short list, or the call made by
\* the main program (lines 262-263)
Calls ==
  {[fn |-> "calculate_yearly_savings", n |-> n, cs |-> <<>>, yd |-> yd] :
     n \in CycleDomain \cup {YEAR_DAYS}, yd \in YearDaysDomain}
  \cup
  {[fn |-> "generate_comparison_data", n |-> 0, cs |-> cs, yd |-> yd] :
     cs \in CycleLists, yd \in YearDaysDomain}
  \cup
  {[fn |-> "generate_comparison_data", n |-> 0, cs |-> interesting_cycles,
    yd |-> YEAR_DAYS]}

Init ==
  /\ pc = "call"
  /\ \E c \in Calls :
       /\ fn = c.fn
       /\ num_cycles = c.n
       /\ target_cycles = c.cs
       /\ year_days = c.yd
  /\ grand_total = 0
  /\ lengths = <<>>
  /\ data = <<>>
  /\ df = <<>>
  /\ error = "none"

\* A direct call of calculate_yearly_savings(num_cycles, year_days)
CalculateYearlySavings ==
  /\ pc = "call"
  /\ fn = "calculate_yearly_savings"
  /\ LET r == calculate_yearly_savings(num_cycles, year_days)
     IN /\ error' = r.raises
        /\ grand_total' = r.total
        /\ lengths' = r.lengths
        /\ pc' = IF r.raises = "none" THEN "return" ELSE "raise"
  /\ UNCHANGED <<fn, num_cycles, target_cycles, year_days, data, df>>

\* A call of generate_comparison_data(target_cycles, year_days)
GenerateComparisonData ==
  /\ pc = "call"
  /\ fn = "generate_comparison_data"
  /\ error' = loop_error(target_cycles, year_days)
  /\ IF loop_error(target_cycles, year_days) = "none"
     THEN /\ data' = assemble(target_cycles, year_days)
          /\ df' \in sort_values(data')
          /\ pc' = "return"
     ELSE /\ data' = <<>>
          /\ df' = <<>>
          /\ pc' = "raise"
  /\ UNCHANGED <<fn, num_cycles, target_cycles, year_days, grand_total, lengths>>

Next == CalculateYearlySavings \/ GenerateComparisonData

Spec == Init /\ [][Next]_vars

----------------------------------------------------------------------------
(* Shorthands for the properties *)

Returned(f) == pc = "return" /\ fn = f

\* The cycle-based rows of the returned table (custom rows have id 0)
CycleRows == {i \in DOMAIN df : df[i].row.CyclesPerYear > 0}

AllPositive(cs) == \A k \in DOMAIN cs : cs[k] >= 1

----------------------------------------------------------------------------
\* C1: for cycle_count >= 1 and year_days >= 0 the returned lengths have
\* cycle_count entries, sum to year_days, differ by at most 1, and the first
\* (year_days mod cycle_count) of them are year_days div cycle_count + 1,
\* the later ones year_days div cycle_count (0 when cycle_count > year_days).
LengthsPartitionYear ==
  (Returned("calculate_yearly_savings") /\ num_cycles >= 1 /\ year_days >= 0)
  => /\ Len(lengths) = num_cycles
     /\ SumSeq(lengths) = year_days
     /\ \A i, j \in DOMAIN lengths : lengths[i] - lengths[j] <= 1
     /\ \A i \in DOMAIN lengths :
          lengths[i] = IF i <= year_days % num_cycles
                       THEN (year_days \div num_cycles) + 1
                       ELSE year_days \div num_cycles
     /\ num_cycles > year_days => lengths[num_cycles] = 0

\* A partition with a remainder and trailing zero-length cycles
LengthsPartitionYearWitness ==
  /\ Returned("calculate_yearly_savings")
  /\ year_days >= 2
  /\ num_cycles > year_days
  /\ lengths[1] = 1
  /\ lengths[num_cycles] = 0

----------------------------------------------------------------------------
\* C2: for cycle_count >= 1 and year_days >= 0 the returned grand_total is
\* the sum over the returned lengths of L*(L+1)/2, stated with the halving
\* cleared: 2 * grand_total = sum of L*(L+1).  With year_days = 365, one
\* cycle gives 66795, two cycles 33489 and 365 cycles 365.
GrandTotalIsSeriesSum ==
  (Returned("calculate_yearly_savings") /\ num_cycles >= 1 /\ year_days >= 0)
  => /\ 2 * grand_total =
          SumSeq([k \in DOMAIN lengths |-> lengths[k] * (lengths[k] + 1)])
     /\ (year_days = 365 /\ num_cycles = 1) => grand_total = 66795
     /\ (year_days = 365 /\ num_cycles = 2) => grand_total = 33489
     /\ (year_days = 365 /\ num_cycles = 365) => grand_total = 365

\* The two-cycle split of the default year has been valued
GrandTotalIsSeriesSumWitness ==
  /\ Returned("calculate_yearly_savings")
  /\ year_days = 365
  /\ num_cycles = 2
  /\ lengths = <<183, 182>>
  /\ grand_total = 33489

----------------------------------------------------------------------------
\* C3: for every list of positive cycle counts (the empty list too) and
\* every year_days the call returns a table ordered by TotalSavings
\* descending that is a permutation of the assembled records: one record
\* per input cycle count, in input order, then the 12 custom strategies,
\* none dropped or duplicated.
RankedDescendingPermutation ==
  (fn = "generate_comparison_data" /\ pc # "call" /\ AllPositive(target_cycles))
  => /\ pc = "return"
     /\ Len(data) = Len(target_cycles) + 12
     /\ \A k \in DOMAIN target_cycles :
          data[k].CyclesPerYear = target_cycles[k]
     /\ \A j \in 1..12 : data[Len(target_cycles) + j] = custom_strategies[j]
     /\ Len(df) = Len(data)
     /\ {df[i].index : i \in DOMAIN df} = DOMAIN data
     /\ \A i \in DOMAIN df : df[i].row = data[df[i].index]
     /\ \A i \in 1..(Len(df) - 1) :
          df[i].row.TotalSavings >= df[i + 1].row.TotalSavings

\* A table in which a cycle-based record ranks strictly between two customs
RankedDescendingPermutationWitness ==
  /\ Returned("generate_comparison_data")
  /\ Len(target_cycles) = 2
  /\ \E i \in 2..(Len(df) - 1) :
       /\ df[i].row.CyclesPerYear > 0
       /\ df[i - 1].row.CyclesPerYear = 0
       /\ df[i + 1].row.CyclesPerYear = 0
       /\ df[i - 1].row.TotalSavings > df[i].row.TotalSavings
       /\ df[i].row.TotalSavings > df[i + 1].row.TotalSavings

----------------------------------------------------------------------------
\* C4: the ranking is stable: two rows of the returned table with equal
\* TotalSavings appear in the order in which they were appended to data.
StableRanking ==
  Returned("generate_comparison_data")
  => \A i, j \in DOMAIN df :
       (i < j /\ df[i].row.TotalSavings = df[j].row.TotalSavings)
       => df[i].index < df[j].index

----------------------------------------------------------------------------
\* C5: a call given a cycle count <= 0 fails with InvalidArgument: it never
\* returns and never fails with another error.
NonPositiveCycleIsInvalidArgument ==
  /\ (fn = "calculate_yearly_savings" /\ pc # "call" /\ num_cycles <= 0)
     => (pc = "raise" /\ error = "InvalidArgument")
  /\ (fn = "generate_comparison_data" /\ pc # "call"
        /\ ~AllPositive(target_cycles))
     => (pc = "raise" /\ error = "InvalidArgument")

----------------------------------------------------------------------------
\* C6: every row of the returned table, cycle-based or custom, has
\* TotalCouple = 2 * TotalSavings.
CoupleIsDouble ==
  Returned("generate_comparison_data")
  => \A i \in DOMAIN df : df[i].row.TotalCouple = 2 * df[i].row.TotalSavings

\* A table holding a cycle-based row with a positive total
CoupleIsDoubleWitness ==
  /\ Returned("generate_comparison_data")
  /\ year_days >= 1
  /\ \E i \in CycleRows :
       /\ df[i].row.TotalSavings > 0
       /\ df[i].row.TotalCouple = 2 * df[i].row.TotalSavings

----------------------------------------------------------------------------
\* C7: with year_days (a day count, >= 0) held fixed, the peak payment of
\* the cycle-based strategy is non-increasing in the cycle count: of two
\* cycle-based rows of one table, the one with the larger cycle count never
\* has the larger MaxDailyAmount, and MaxDailyAmount is the largest of the
\* lengths, the ceiling of year_days / cycle count.
PeakNonIncreasingInCycles ==
  (Returned("generate_comparison_data") /\ year_days >= 0)
  => /\ \A i, j \in CycleRows :
          df[i].row.CyclesPerYear <= df[j].row.CyclesPerYear
          => df[j].row.MaxDailyAmount <= df[i].row.MaxDailyAmount
     /\ \A i \in CycleRows :
          LET c == df[i].row.CyclesPerYear
              m == df[i].row.MaxDailyAmount
          IN c * (m - 1) < year_days /\ year_days <= c * m

\* Two cycle counts whose peaks differ strictly, the larger count lower
PeakNonIncreasingInCyclesWitness ==
  /\ Returned("generate_comparison_data")
  /\ year_days >= 0
  /\ \E i, j \in CycleRows :
       /\ df[i].row.CyclesPerYear < df[j].row.CyclesPerYear
       /\ df[j].row.MaxDailyAmount < df[i].row.MaxDailyAmount
       /\ year_days % df[j].row.CyclesPerYear # 0

----------------------------------------------------------------------------
\* C8: for cycle counts >= 1 and year_days >= 0 (cycle_count > year_days and
\* year_days = 0 included) every row of the returned table has
\* TotalSavings >= 0, MaxDailyAmount >= 0 and MaxDailyAmount <= TotalSavings.
RecordAmountsBounded ==
  (Returned("generate_comparison_data") /\ year_days >= 0)
  => \A i \in DOMAIN df :
       /\ df[i].row.TotalSavings >= 0
       /\ df[i].row.MaxDailyAmount >= 0
       /\ df[i].row.MaxDailyAmount <= df[i].row.TotalSavings

\* A table with more cycles than days, where peak and total are both small
RecordAmountsBoundedWitness ==
  /\ Returned("generate_comparison_data")
  /\ year_days >= 1
  /\ \E i \in CycleRows :
       /\ df[i].row.CyclesPerYear > year_days
       /\ df[i].row.MaxDailyAmount = 1
       /\ df[i].row.TotalSavings = year_days

----------------------------------------------------------------------------
\* C9: the Desc of a cycle-based row is "<lengths[0]> days" when all cycle
\* lengths are equal, and otherwise "~<m> days" with m the mean of the
\* lengths rounded to the nearest integer (either neighbour at a half);
\* year_days = 365 with 6 cycles must give "~61 days".
NearestToMean(m, c, yd) ==
  /\ 2 * (c * m - yd) <= c
  /\ 2 * (yd - c * m) <= c

DescIsRoundedMean ==
  (Returned("generate_comparison_data") /\ year_days >= 0)
  => \A i \in CycleRows :
       LET c == df[i].row.CyclesPerYear
           q == year_days \div c
       IN IF year_days % c = 0
          THEN df[i].row.Desc = ToString(q) \o " days"
          ELSE \E m \in {q, q + 1} :
                 /\ NearestToMean(m, c, year_days)
                 /\ df[i].row.Desc = "~" \o ToString(m) \o " days"

----------------------------------------------------------------------------
\* C10: with year_days >= 0 held fixed, grand_total is non-increasing in
\* the cycle count, is never below year_days, and equals year_days for
\* every cycle count >= year_days; so of two cycle-based rows the one with
\* the smaller cycle count never has the smaller total.
TotalNonIncreasingInCycles ==
  /\ (Returned("calculate_yearly_savings") /\ num_cycles >= 1 /\ year_days >= 0)
     => /\ grand_total >= year_days
        /\ num_cycles >= year_days => grand_total = year_days
  /\ (Returned("generate_comparison_data") /\ year_days >= 0)
     => /\ \A i, j \in CycleRows :
             df[i].row.CyclesPerYear <= df[j].row.CyclesPerYear
             => df[j].row.TotalSavings <= df[i].row.TotalSavings
        /\ \A i \in CycleRows :
             /\ df[i].row.TotalSavings >= year_days
             /\ df[i].row.CyclesPerYear >= year_days
                => df[i].row.TotalSavings = year_days

\* Two cycle counts below year_days with strictly decreasing totals
TotalNonIncreasingInCyclesWitness ==
  /\ Returned("generate_comparison_data")
  /\ \E i, j \in CycleRows :
       /\ df[i].row.CyclesPerYear < df[j].row.CyclesPerYear
       /\ df[j].row.CyclesPerYear < year_days
       /\ df[j].row.TotalSavings < df[i].row.TotalSavings
       /\ df[j].row.TotalSavings > year_days

====
